---- MODULE Spec2Model ----
(***************************************************************************)
(* The mini task manager: the backend (src/backend/server.js), an express  *)
(* server over one SQLite connection, and the React client that calls it   *)
(* (Login, App, TaskList).  A request is handled in steps: the synchronous *)
(* part of the route (token guard, body validation) runs when the request  *)
(* arrives, and every storage statement is a later step, so the statements *)
(* of requests in flight interleave.  A step executes one statement        *)
(* together with its callback.  A handler of the client is two steps: up   *)
(* to its await, and from the arrival of the response on.                  *)
(***************************************************************************)
EXTENDS Integers, Sequences, FiniteSets, TLC

VARIABLES
    users,         \* rows of table users
    tasks,         \* rows of table tasks
    seqUsers,      \* sqlite_sequence of users (AUTOINCREMENT)
    seqTasks,      \* sqlite_sequence of tasks (AUTOINCREMENT)
    now,           \* the server's clock, in hours
    reqs,          \* the requests in flight and their responses, by connection
    held,          \* the tokens that clients have received and kept
    signedUp,      \* history: the credentials of every signup answered 201
    maxInFlight,   \* how many requests the clients keep in flight at once
    storageFaults, \* whether the storage engine may fail a statement
    running,       \* whether the server process is alive
    browser,       \* the React client: localStorage, App's and TaskList's state
    calls          \* the client's handlers awaiting a response, by connection

vars == <<users, tasks, seqUsers, seqTasks, now, reqs, held, signedUp, maxInFlight, storageFaults, running, browser, calls>>

db == <<users, tasks, seqUsers, seqTasks>>

setting == <<maxInFlight, storageFaults>>

client == <<browser, calls>>

----------------------------------------------------------------------------
(* Bounds of the model *)

NumSlots == 2
MaxTasks == 2
MaxHeld == 2
MaxTime == 24
TickHours == 12

(* Constants of the program *)

MinPasswordLength == 6
SaltRounds == 10
ExpiresInHours == 24

JWT_SECRET == "process.env.JWT_SECRET"

----------------------------------------------------------------------------
(* Inputs *)

Slots == 1..NumSlots

\* A JSON body is a record; a field the client left out is not in its domain.
NoBody == [k \in {} |-> ""]

AuthBodies ==
    {[email |-> "a@x.com", password |-> "secret1"],
     [email |-> "b@x.com", password |-> "secret1"],
     [email |-> "a@x.com", password |-> "abc12"],
     [email |-> "a@x.com", password |-> ""],
     [email |-> "a@x.com"],
     [password |-> "secret1"]}

TaskBodies ==
    {[title |-> "Buy milk"],
     [title |-> "Call mum", description |-> "2 litres", status |-> "completed"],
     [title |-> "Buy milk", status |-> "archived"],
     [title |-> "", description |-> "2 litres"],
     [description |-> "2 litres", status |-> "completed"]}

TaskIds == 1..MaxTasks

\* A value of a body is a string or a number.  The numbers are written as
\* their digits; no string of the model consists of digits.
Numbers == {"1234567"}

TypeOf(v) == IF v \in Numbers THEN "number" ELSE "string"

\* v.length < n: a number has no length, and undefined < n is false
LengthLess(v, n) == TypeOf(v) = "string" /\ Len(v) < n

\* JavaScript's truthiness of body[k]: undefined and '' are falsy
Truthy(body, k) == k \in DOMAIN body /\ body[k] # ""

\* mutant: body[k] || ''
OrEmpty(body, k, dflt) == IF Truthy(body, k) THEN body[k] ELSE ""

\* body[k] || dflt
OrDefault(body, k, dflt) == IF Truthy(body, k) THEN body[k] ELSE dflt

----------------------------------------------------------------------------
(* bcryptjs *)

Salts == {"salt"}

\* bcrypt.hash and bcrypt.compare reject when the password is not a string
BcryptRejects(password) == TypeOf(password) # "string"

BcryptHash(password, salt) == <<"$2a$", SaltRounds, salt, password>>

\* mutant: the password compared with the stored value as plain text
BcryptComparePlain(password, hash) == password = hash[4] /\ hash[3] = ""

BcryptCompare(password, hash) == BcryptHash(password, hash[3]) = hash

----------------------------------------------------------------------------
(* jsonwebtoken *)

NoToken == [userId |-> 0, email |-> "", iat |-> 0, exp |-> 0, sig |-> <<>>]
Garbage == [userId |-> 0, email |-> "", iat |-> 0, exp |-> 0, sig |-> <<"null">>]

Hmac(secret, userId, email, iat, exp) == <<secret, userId, email, iat, exp>>

JwtSign(userId, email, secret, expiresIn) ==
    [userId |-> userId, email |-> email, iat |-> now, exp |-> now + expiresIn,
     sig |-> Hmac(secret, userId, email, now, now + expiresIn)]

\* mutant: the signature verified, the expiry not
JwtVerifyNoExpiry(token, secret) ==
    token.sig = Hmac(secret, token.userId, token.email, token.iat, token.exp)

\* TRUE when jwt.verify calls back without err
JwtVerify(token, secret) ==
    /\ token.sig = Hmac(secret, token.userId, token.email, token.iat, token.exp)
    /\ now < token.exp

----------------------------------------------------------------------------
(* Requests and responses *)

NoUser == [userId |-> 0, email |-> ""]

Response(status, error, message, token, rows) ==
    [status |-> status, error |-> error, message |-> message, token |-> token,
     rows |-> rows]

ErrorResponse(status, error) == Response(status, error, "", NoToken, <<>>)

NoResponse == Response(0, "", "", NoToken, <<>>)

Idle ==
    [pc |-> "idle", op |-> "", authorization |-> <<>>, user |-> NoUser,
     body |-> NoBody, id |-> 0, lastID |-> 0, res |-> NoResponse]

Request(op, authorization, body, id) ==
    [pc |-> "arrived", op |-> op, authorization |-> authorization, user |-> NoUser,
     body |-> body, id |-> id, lastID |-> 0, res |-> NoResponse]

Respond(req, res) == [req EXCEPT !.pc = "done", !.res = res]

InFlight == {s \in Slots : reqs[s].pc # "idle"}

\* a request arrives on the first free connection (the connections are
\* interchangeable)
CanArrive(s) ==
    /\ running
    /\ reqs[s].pc = "idle"
    /\ \A t \in Slots : t < s => reqs[t].pc # "idle"
    /\ Cardinality(InFlight) < maxInFlight

\* err of a storage callback, when the engine itself fails the statement
EngineErrs == IF storageFaults THEN {FALSE, TRUE} ELSE {FALSE}

\* The promise of an async callback is rejected and nothing handles it: the
\* request of connection s is never answered.  Node either only warns, or
\* (its default from version 15 on) ends the process, and then the other
\* requests in flight are never answered either.
UnhandledRejection(s) ==
    \/ /\ reqs' = [reqs EXCEPT ![s].pc = "abandoned"]
       /\ running' = running
    \/ /\ reqs' = [t \in Slots |->
                      IF t = s \/ reqs[t].pc \notin {"idle", "done"}
                      THEN [reqs[t] EXCEPT !.pc = "abandoned"]
                      ELSE reqs[t]]
       /\ running' = FALSE

----------------------------------------------------------------------------
(* The React client's state *)

\* what stands for undefined where a task row is expected
NoRow ==
    [id |-> 0, title |-> "", description |-> "", status |-> "", user_id |-> 0,
     created_at |-> 0, updated_at |-> 0]

\* localStorage (token, userData), App's state (isAuthenticated, user) and
\* TaskList's state (tasks, loading, error), before anyone has logged in
LoggedOut ==
    [token |-> NoToken, userData |-> NoUser, isAuthenticated |-> FALSE,
     user |-> NoUser, tasks |-> <<>>, loading |-> TRUE, error |-> ""]

\* a handler of the client suspended at its await: its name, the tasks and
\* the task of the render that it closed over, and whether the component
\* it belongs to has been unmounted since
Call(fn, tasksSeen, task) ==
    [fn |-> fn, tasks |-> tasksSeen, task |-> task, unmounted |-> FALSE]

NoCall == Call("", <<>>, NoRow)

----------------------------------------------------------------------------
(* The tables *)

\* mutant: INTEGER PRIMARY KEY without AUTOINCREMENT, the largest id plus one
NextRowIdReused(seq, rows) ==
    LET ids == {0} \cup {t.id : t \in rows} IN
    (CHOOSE m \in ids : \A i \in ids : i <= m) + 1

\* id INTEGER PRIMARY KEY AUTOINCREMENT: an id is never given twice
NextRowId(seq, rows) == seq + 1

----------------------------------------------------------------------------
(* POST /auth/signup *)

SelectUserByEmail(email) == {u \in users : u.email = email}

\* mutant: the password's length not checked
SignupRouteNoLength(req) ==
    IF ~Truthy(req.body, "email") \/ ~Truthy(req.body, "password")
    THEN Respond(req, ErrorResponse(400, "Email and password are required"))
    ELSE [req EXCEPT !.pc = "signup_select"]

SignupRoute(req) ==
    IF ~Truthy(req.body, "email") \/ ~Truthy(req.body, "password")
    THEN Respond(req, ErrorResponse(400, "Email and password are required"))
    ELSE IF LengthLess(req.body.password, MinPasswordLength)
    THEN Respond(req, ErrorResponse(400, "Password must be at least 6 characters"))
    ELSE [req EXCEPT !.pc = "signup_select"]

Signup(s, bodies) ==
    /\ CanArrive(s)
    /\ \E body \in bodies :
       reqs' = [reqs EXCEPT ![s] = SignupRoute(Request("signup", <<>>, body, 0))]
    /\ UNCHANGED <<db, now, held, signedUp, setting, running, client>>

\* mutant: the row found not looked at
SignupCallbackNoCheck(req, err, found) ==
    IF err
    THEN Respond(req, ErrorResponse(500, "Database error"))
    ELSE [req EXCEPT !.pc = "signup_insert"]

\* the callback of db.get: err, and the row found (none: the empty set)
SignupCallback(req, err, found) ==
    IF err
    THEN Respond(req, ErrorResponse(500, "Database error"))
    ELSE IF found # {}
    THEN Respond(req, ErrorResponse(400, "User already exists"))
    ELSE [req EXCEPT !.pc = "signup_insert"]

SignupSelect(s) ==
    /\ reqs[s].pc = "signup_select"
    /\ \E err \in EngineErrs :
       reqs' = [reqs EXCEPT ![s] =
                   SignupCallback(reqs[s], err, SelectUserByEmail(reqs[s].body.email))]
    /\ UNCHANGED <<db, now, held, signedUp, setting, running, client>>

SignupInsert(s) ==
    /\ reqs[s].pc = "signup_insert"
    /\ LET req == reqs[s]
           email == req.body.email
       IN  IF BcryptRejects(req.body.password)
           THEN /\ UnhandledRejection(s)
                /\ UNCHANGED <<users, seqUsers, signedUp>>
           ELSE
           /\ running' = running
           /\ \E err \in EngineErrs, salt \in Salts :
              IF err \/ SelectUserByEmail(email) # {}   \* engine failure, or email UNIQUE
              THEN /\ reqs' = [reqs EXCEPT ![s] =
                          Respond(req, ErrorResponse(500, "Failed to create user"))]
                   /\ UNCHANGED <<users, seqUsers, signedUp>>
              ELSE LET lastID == NextRowId(seqUsers, users)
                       token == JwtSign(lastID, email, JWT_SECRET, ExpiresInHours)
                   IN  /\ users' = users \cup
                              {[id |-> lastID, email |-> email,
                                password |-> BcryptHash(req.body.password, salt)]}
                       /\ seqUsers' = lastID
                       /\ signedUp' = signedUp \cup
                              {[id |-> lastID, email |-> email,
                                password |-> req.body.password]}
                       /\ reqs' = [reqs EXCEPT ![s] =
                              Respond([req EXCEPT !.lastID = lastID],
                                      Response(201, "", "User created successfully",
                                               token, <<>>))]
    /\ UNCHANGED <<tasks, seqTasks, now, held, setting, client>>

----------------------------------------------------------------------------
(* POST /auth/login *)

LoginRoute(req) ==
    IF ~Truthy(req.body, "email") \/ ~Truthy(req.body, "password")
    THEN Respond(req, ErrorResponse(400, "Email and password are required"))
    ELSE [req EXCEPT !.pc = "login_select"]

Login(s, bodies) ==
    /\ CanArrive(s)
    /\ \E body \in bodies :
       reqs' = [reqs EXCEPT ![s] = LoginRoute(Request("login", <<>>, body, 0))]
    /\ UNCHANGED <<db, now, held, signedUp, setting, running, client>>

\* mutant: an unknown email answered differently from a wrong password
LoginCallbackReveals(req, err, found) ==
    IF err
    THEN Respond(req, ErrorResponse(500, "Database error"))
    ELSE IF found = {}
    THEN Respond(req, ErrorResponse(404, "User not found"))
    ELSE LET user == CHOOSE u \in found : TRUE IN
         IF ~BcryptCompare(req.body.password, user.password)
         THEN Respond(req, ErrorResponse(400, "Invalid credentials"))
         ELSE Respond(req,
                  Response(200, "", "Login successful",
                           JwtSign(user.id, user.email, JWT_SECRET, ExpiresInHours),
                           <<>>))

\* the callback of db.get: err, and the row found (none: the empty set)
LoginCallback(req, err, found) ==
    IF err
    THEN Respond(req, ErrorResponse(500, "Database error"))
    ELSE IF found = {}
    THEN Respond(req, ErrorResponse(400, "Invalid credentials"))
    ELSE LET user == CHOOSE u \in found : TRUE IN
         IF ~BcryptCompare(req.body.password, user.password)
         THEN Respond(req, ErrorResponse(400, "Invalid credentials"))
         ELSE Respond(req,
                  Response(200, "", "Login successful",
                           JwtSign(user.id, user.email, JWT_SECRET, ExpiresInHours),
                           <<>>))

LoginSelect(s) ==
    /\ reqs[s].pc = "login_select"
    /\ LET req == reqs[s]
           found == SelectUserByEmail(req.body.email)
       IN  \E err \in EngineErrs :
           IF ~err /\ found # {} /\ BcryptRejects(req.body.password)
           THEN UnhandledRejection(s)
           ELSE /\ reqs' = [reqs EXCEPT ![s] = LoginCallback(req, err, found)]
                /\ running' = running
    /\ UNCHANGED <<db, now, held, signedUp, setting, client>>

----------------------------------------------------------------------------
(* authenticateToken *)

\* authHeader && authHeader.split(' ')[1]
BearerToken(authorization) ==
    IF Len(authorization) >= 2 THEN authorization[2] ELSE NoToken

AuthenticateToken(req) ==
    LET token == BearerToken(req.authorization) IN
    IF token = NoToken
    THEN Respond(req, ErrorResponse(401, "Access token required"))
    ELSE IF ~JwtVerify(token, JWT_SECRET)
    THEN Respond(req, ErrorResponse(403, "Invalid or expired token"))
    ELSE [req EXCEPT !.user = [userId |-> token.userId, email |-> token.email],
                     !.pc = "next"]

\* What a client can put in the Authorization header: nothing, the scheme
\* alone, a token it holds, a token it holds with the payload altered, or
\* the string the browser client sends when it has no token.
Tampered(t) ==
    {[t EXCEPT !.userId = u] : u \in (1..seqUsers) \ {t.userId}}
        \cup {[t EXCEPT !.exp = @ + ExpiresInHours]}

HeldAuthorizations == {<<"Bearer", t>> : t \in held}

Authorizations ==
    {<<>>, <<"Bearer">>, <<"Bearer", Garbage>>}
        \cup HeldAuthorizations
        \cup {<<"Bearer", f>> : f \in UNION {Tampered(t) : t \in held}}

----------------------------------------------------------------------------
(* GET /tasks *)

\* mutant: ORDER BY created_at ASC
SelectTasksByUserAsc(userId) ==
    LET rows == {t \in tasks : t.user_id = userId} IN
    {q \in [1..Cardinality(rows) -> rows] :
        /\ \A i, j \in DOMAIN q : i # j => q[i] # q[j]
        /\ \A i, j \in DOMAIN q : i < j => q[i].created_at <= q[j].created_at}

\* SELECT * FROM tasks WHERE user_id = ? ORDER BY created_at DESC: the rows
\* in every order that the ORDER BY allows (rows of one instant in any order)
SelectTasksByUser(userId) ==
    LET rows == {t \in tasks : t.user_id = userId} IN
    {q \in [1..Cardinality(rows) -> rows] :
        /\ \A i, j \in DOMAIN q : i # j => q[i] # q[j]
        /\ \A i, j \in DOMAIN q : i < j => q[i].created_at >= q[j].created_at}

GetTasksRoute(req) ==
    LET r == AuthenticateToken(req) IN
    IF r.pc = "done" THEN r ELSE [r EXCEPT !.pc = "get_all"]

GetTasks(s, authorizations) ==
    /\ CanArrive(s)
    /\ \E authorization \in authorizations :
       reqs' = [reqs EXCEPT ![s] = GetTasksRoute(Request("GET", authorization, NoBody, 0))]
    /\ UNCHANGED <<db, now, held, signedUp, setting, running, client>>

GetTasksAll(s) ==
    /\ reqs[s].pc = "get_all"
    /\ \E err \in EngineErrs, rows \in SelectTasksByUser(reqs[s].user.userId) :
       reqs' = [reqs EXCEPT ![s] =
           IF err
           THEN Respond(@, ErrorResponse(500, "Failed to fetch tasks"))
           ELSE Respond(@, Response(200, "", "", NoToken, rows))]
    /\ UNCHANGED <<db, now, held, signedUp, setting, running, client>>

----------------------------------------------------------------------------
(* POST /tasks *)

\* SELECT * FROM tasks WHERE id = ?, as db.get gives it: one row or none
SelectTaskById(id) ==
    LET rows == {t \in tasks : t.id = id} IN
    IF rows = {} THEN <<>> ELSE <<CHOOSE t \in rows : TRUE>>

\* mutant: the description not bound to the statement
InsertedTaskNoDescription(id, title, description, userId) ==
    [id |-> id, title |-> title, description |-> "", status |-> "pending",
     user_id |-> userId, created_at |-> now, updated_at |-> now]

\* INSERT INTO tasks (title, description, user_id) VALUES (?, ?, ?)
InsertedTask(id, title, description, userId) ==
    [id |-> id, title |-> title, description |-> description, status |-> "pending",
     user_id |-> userId, created_at |-> now, updated_at |-> now]

\* mutant: the title checked before the token
PostTasksRouteValidateFirst(req) ==
    IF ~Truthy(req.body, "title")
    THEN Respond(req, ErrorResponse(400, "Title is required"))
    ELSE LET r == AuthenticateToken(req) IN
         IF r.pc = "done" THEN r ELSE [r EXCEPT !.pc = "post_insert"]

PostTasksRoute(req) ==
    LET r == AuthenticateToken(req) IN
    IF r.pc = "done" THEN r
    ELSE IF ~Truthy(r.body, "title")
    THEN Respond(r, ErrorResponse(400, "Title is required"))
    ELSE [r EXCEPT !.pc = "post_insert"]

PendingInserts == {s \in Slots : reqs[s].pc = "post_insert"}

PostTasks(s, authorizations, bodies) ==
    /\ CanArrive(s)
    /\ \E authorization \in authorizations, body \in bodies :
       LET r == PostTasksRoute(Request("POST", authorization, body, 0)) IN
       /\ r.pc = "post_insert" => seqTasks + Cardinality(PendingInserts) < MaxTasks
       /\ reqs' = [reqs EXCEPT ![s] = r]
    /\ UNCHANGED <<db, now, held, signedUp, setting, running, client>>

PostInsert(s) ==
    /\ reqs[s].pc = "post_insert"
    /\ LET req == reqs[s] IN
       \E err \in EngineErrs :
       IF err
       THEN /\ reqs' = [reqs EXCEPT ![s] =
                   Respond(req, ErrorResponse(500, "Failed to create task"))]
            /\ UNCHANGED <<tasks, seqTasks>>
       ELSE LET lastID == NextRowId(seqTasks, tasks) IN
            /\ tasks' = tasks \cup
                   {InsertedTask(lastID, req.body.title,
                                 OrDefault(req.body, "description", ""), req.user.userId)}
            /\ seqTasks' = lastID
            /\ reqs' = [reqs EXCEPT ![s] = [req EXCEPT !.lastID = lastID, !.pc = "post_select"]]
    /\ UNCHANGED <<users, seqUsers, now, held, signedUp, setting, running, client>>

PostSelect(s) ==
    /\ reqs[s].pc = "post_select"
    /\ \E err \in EngineErrs :
       reqs' = [reqs EXCEPT ![s] =
           IF err
           THEN Respond(@, ErrorResponse(500, "Failed to fetch created task"))
           ELSE Respond(@, Response(201, "", "", NoToken, SelectTaskById(@.lastID)))]
    /\ UNCHANGED <<db, now, held, signedUp, setting, running, client>>

----------------------------------------------------------------------------
(* PUT /tasks/:id *)

\* mutant: WHERE id = ? alone
OwnedTaskAnyOwner(id, userId) == {t \in tasks : t.id = id}

\* mutant: WHERE user_id = ? alone
OwnedTaskAllOfUser(id, userId) == {t \in tasks : t.user_id = userId}

\* the rows of WHERE id = ? AND user_id = ?
OwnedTask(id, userId) == {t \in tasks : t.id = id /\ t.user_id = userId}

\* mutant: updated_at left as it was
UpdatedTaskStale(t, title, description, status) ==
    [t EXCEPT !.title = title, !.description = description, !.status = status]

\* UPDATE tasks SET title = ?, description = ?, status = ?,
\* updated_at = CURRENT_TIMESTAMP, on one row
UpdatedTask(t, title, description, status) ==
    [t EXCEPT !.title = title, !.description = description, !.status = status,
              !.updated_at = now]

\* mutant: the title not checked
PutTasksRouteNoValidation(req) ==
    LET r == AuthenticateToken(req) IN
    IF r.pc = "done" THEN r ELSE [r EXCEPT !.pc = "put_update"]

PutTasksRoute(req) ==
    LET r == AuthenticateToken(req) IN
    IF r.pc = "done" THEN r
    ELSE IF ~Truthy(r.body, "title")
    THEN Respond(r, ErrorResponse(400, "Title is required"))
    ELSE [r EXCEPT !.pc = "put_update"]

PutTasks(s, authorizations, bodies, ids) ==
    /\ CanArrive(s)
    /\ \E authorization \in authorizations, body \in bodies, id \in ids :
       reqs' = [reqs EXCEPT ![s] = PutTasksRoute(Request("PUT", authorization, body, id))]
    /\ UNCHANGED <<db, now, held, signedUp, setting, running, client>>

PutUpdate(s) ==
    /\ reqs[s].pc = "put_update"
    /\ LET req == reqs[s]
           matched == OwnedTask(req.id, req.user.userId)
       IN  \E err \in EngineErrs :
           IF err
           THEN /\ reqs' = [reqs EXCEPT ![s] =
                       Respond(req, ErrorResponse(500, "Failed to update task"))]
                /\ UNCHANGED tasks
           ELSE IF Cardinality(matched) = 0
           THEN /\ reqs' = [reqs EXCEPT ![s] =
                       Respond(req, ErrorResponse(404, "Task not found or unauthorized"))]
                /\ UNCHANGED tasks
           ELSE /\ tasks' = (tasks \ matched) \cup
                       {UpdatedTask(t, req.body.title,
                                    OrDefault(req.body, "description", ""),
                                    OrDefault(req.body, "status", "pending")) : t \in matched}
                /\ reqs' = [reqs EXCEPT ![s] = [req EXCEPT !.pc = "put_select"]]
    /\ UNCHANGED <<users, seqUsers, seqTasks, now, held, signedUp, setting, running, client>>

PutSelect(s) ==
    /\ reqs[s].pc = "put_select"
    /\ \E err \in EngineErrs :
       reqs' = [reqs EXCEPT ![s] =
           IF err
           THEN Respond(@, ErrorResponse(500, "Failed to fetch updated task"))
           ELSE Respond(@, Response(200, "", "", NoToken, SelectTaskById(@.id)))]
    /\ UNCHANGED <<db, now, held, signedUp, setting, running, client>>

----------------------------------------------------------------------------
(* DELETE /tasks/:id *)

DeleteTasksRoute(req) ==
    LET r == AuthenticateToken(req) IN
    IF r.pc = "done" THEN r ELSE [r EXCEPT !.pc = "delete_run"]

DeleteTasks(s, authorizations, ids) ==
    /\ CanArrive(s)
    /\ \E authorization \in authorizations, id \in ids :
       reqs' = [reqs EXCEPT ![s] =
                   DeleteTasksRoute(Request("DELETE", authorization, NoBody, id))]
    /\ UNCHANGED <<db, now, held, signedUp, setting, running, client>>

DeleteRun(s) ==
    /\ reqs[s].pc = "delete_run"
    /\ LET req == reqs[s]
           matched == OwnedTask(req.id, req.user.userId)
       IN  \E err \in EngineErrs :
           IF err
           THEN /\ reqs' = [reqs EXCEPT ![s] =
                       Respond(req, ErrorResponse(500, "Failed to delete task"))]
                /\ UNCHANGED tasks
           ELSE IF Cardinality(matched) = 0
           THEN /\ reqs' = [reqs EXCEPT ![s] =
                       Respond(req, ErrorResponse(404, "Task not found or unauthorized"))]
                /\ UNCHANGED tasks
           ELSE /\ tasks' = tasks \ matched
                /\ reqs' = [reqs EXCEPT ![s] =
                       Respond(req, Response(200, "", "Task deleted successfully", NoToken, <<>>))]
    /\ UNCHANGED <<users, seqUsers, seqTasks, now, held, signedUp, setting, running, client>>

----------------------------------------------------------------------------
(* The clients and the clock *)

\* A client other than the browser reads the response; it may keep a token
\* it was sent.
Deliver(s) ==
    /\ reqs[s].pc = "done"
    /\ calls[s] = NoCall
    /\ reqs' = [reqs EXCEPT ![s] = Idle]
    /\ LET token == reqs[s].res.token IN
       \/ held' = held
       \/ /\ token # NoToken
          /\ Cardinality(held \cup {token}) <= MaxHeld
          /\ held' = held \cup {token}
       \/ /\ token # NoToken
          /\ \E old \in held : held' = (held \ {old}) \cup {token}
    /\ UNCHANGED <<db, now, signedUp, setting, running, client>>

Tick ==
    /\ now + TickHours <= MaxTime
    /\ now' = now + TickHours
    /\ UNCHANGED <<db, reqs, held, signedUp, setting, running, client>>

----------------------------------------------------------------------------
(* The React client: Login, App and TaskList.  A handler sends its request *)
(* and is suspended at its await; when the response has arrived it resumes *)
(* with the values its render closed over.                                 *)

\* getAuthHeaders: `Bearer ${localStorage.getItem('token')}`, which is the
\* string 'Bearer null' when no token is stored
GetAuthHeaders ==
    <<"Bearer", IF browser.token = NoToken THEN Garbage ELSE browser.token>>

\* axios resolves for a status 2xx and throws otherwise
Resolves(res) == res.status >= 200 /\ res.status < 300

\* response.data of a task route: the row, or undefined
ResponseData(res) == IF res.rows = <<>> THEN NoRow ELSE res.rows[1]

\* the handlers in flight belong to a component that is unmounted
Unmount(cs) ==
    [t \in Slots |-> IF cs[t] = NoCall THEN cs[t] ELSE [cs[t] EXCEPT !.unmounted = TRUE]]

\* setTasks, setLoading, setError on the TaskList that the handler belongs
\* to: a state update of an unmounted component has no effect
SetTasks(b, call, tasksNext) == IF call.unmounted THEN b ELSE [b EXCEPT !.tasks = tasksNext]

SetLoading(b, call, loading) == IF call.unmounted THEN b ELSE [b EXCEPT !.loading = loading]

SetError(b, call, error) == IF call.unmounted THEN b ELSE [b EXCEPT !.error = error]

LoginForms ==
    {[email |-> "a@x.com", password |-> "secret1"],
     [email |-> "c@x.com", password |-> "secret1"]}

AddForms ==
    {[title |-> "Buy milk", description |-> "", status |-> "pending"],
     [title |-> "Call mum", description |-> "2 litres", status |-> "pending"]}

\* Login.handleSubmit up to its await; the submit button is disabled while
\* a submission is in flight
HandleSubmit(s, forms) ==
    /\ CanArrive(s)
    /\ ~browser.isAuthenticated
    /\ \A t \in Slots : calls[t].fn # "handleSubmit"
    /\ \E isSignUp \in BOOLEAN, formData \in forms :
       reqs' = [reqs EXCEPT ![s] =
                   IF isSignUp
                   THEN SignupRoute(Request("signup", <<>>, formData, 0))
                   ELSE LoginRoute(Request("login", <<>>, formData, 0))]
    /\ calls' = [calls EXCEPT ![s] = Call("handleSubmit", <<>>, NoRow)]
    /\ UNCHANGED <<db, now, held, signedUp, setting, running, browser>>

\* App.handleLogin
HandleLogin(b, token, userData) ==
    [b EXCEPT !.token = token, !.userData = userData,
              !.isAuthenticated = TRUE, !.user = userData]

\* Login.handleSubmit from its await on
HandleSubmitSettled(s) ==
    /\ reqs[s].pc = "done"
    /\ calls[s].fn = "handleSubmit"
    /\ LET res == reqs[s].res IN
       browser' = IF Resolves(res)
                  THEN HandleLogin(browser, res.token,
                                   [userId |-> res.token.userId, email |-> res.token.email])
                  ELSE browser
    /\ reqs' = [reqs EXCEPT ![s] = Idle]
    /\ calls' = [calls EXCEPT ![s] = NoCall]
    /\ UNCHANGED <<db, now, held, signedUp, setting, running>>

\* App.handleLogout; TaskList is unmounted and its state is gone
HandleLogout(b) ==
    [b EXCEPT !.token = NoToken, !.userData = NoUser,
              !.isAuthenticated = FALSE, !.user = NoUser,
              !.tasks = <<>>, !.loading = TRUE, !.error = ""]

\* the Logout button, which the TaskList shows once it has loaded
Logout ==
    /\ browser.isAuthenticated
    /\ ~browser.loading
    /\ browser' = HandleLogout(browser)
    /\ calls' = Unmount(calls)
    /\ UNCHANGED <<db, now, reqs, held, signedUp, setting, running>>

\* TaskList is mounted (after a login, or when the page is loaded with a
\* token in localStorage) and its effect calls fetchTasks, up to the await
FetchTasks(s) ==
    /\ CanArrive(s)
    /\ browser.isAuthenticated
    /\ reqs' = [reqs EXCEPT ![s] = GetTasksRoute(Request("GET", GetAuthHeaders, NoBody, 0))]
    /\ browser' = [browser EXCEPT !.tasks = <<>>, !.loading = TRUE, !.error = ""]
    /\ calls' = [Unmount(calls) EXCEPT ![s] = Call("fetchTasks", <<>>, NoRow)]
    /\ UNCHANGED <<db, now, held, signedUp, setting, running>>

\* the effect of the TaskList that has just been mounted, which runs once
UseEffect(s) ==
    /\ browser.loading
    /\ \A t \in Slots : calls[t].fn = "fetchTasks" => calls[t].unmounted
    /\ FetchTasks(s)

\* fetchTasks from its await on: the browser's state after it
FetchTasksCatch(b, call, res) ==
    IF Resolves(res)
    THEN SetLoading(SetTasks(b, call, res.rows), call, FALSE)
    ELSE IF res.status = 401
    THEN HandleLogout(SetError(b, call, "Failed to fetch tasks"))
    ELSE SetLoading(SetError(b, call, "Failed to fetch tasks"), call, FALSE)

FetchTasksSettled(s) ==
    /\ reqs[s].pc = "done"
    /\ calls[s].fn = "fetchTasks"
    /\ browser' = FetchTasksCatch(browser, calls[s], reqs[s].res)
    /\ reqs' = [reqs EXCEPT ![s] = Idle]
    /\ calls' = IF browser.isAuthenticated /\ ~browser'.isAuthenticated
                THEN [Unmount(calls) EXCEPT ![s] = NoCall]
                ELSE [calls EXCEPT ![s] = NoCall]
    /\ UNCHANGED <<db, now, held, signedUp, setting, running>>

\* handleAddTask up to its await; the form is opened from the loaded list
HandleAddTask(s, forms) ==
    /\ CanArrive(s)
    /\ browser.isAuthenticated
    /\ ~browser.loading
    /\ \E taskData \in forms :
       LET r == PostTasksRoute(Request("POST", GetAuthHeaders, taskData, 0)) IN
       /\ r.pc = "post_insert" => seqTasks + Cardinality(PendingInserts) < MaxTasks
       /\ reqs' = [reqs EXCEPT ![s] = r]
    /\ calls' = [calls EXCEPT ![s] = Call("handleAddTask", browser.tasks, NoRow)]
    /\ UNCHANGED <<db, now, held, signedUp, setting, running, browser>>

\* handleAddTask from its await on
HandleAddTaskSettled(s) ==
    /\ reqs[s].pc = "done"
    /\ calls[s].fn = "handleAddTask"
    /\ LET res == reqs[s].res
           call == calls[s]
       IN  browser' = IF Resolves(res)
                      THEN SetTasks(browser, call, <<ResponseData(res)>> \o call.tasks)
                      ELSE SetError(browser, call, "Failed to create task")
    /\ reqs' = [reqs EXCEPT ![s] = Idle]
    /\ calls' = [calls EXCEPT ![s] = NoCall]
    /\ UNCHANGED <<db, now, held, signedUp, setting, running>>

\* mutant: the button that only ever completes
ToggledTaskCompleted(task) == [task EXCEPT !.status = "completed"]

\* { ...task, status: newStatus }
ToggledTask(task) ==
    [task EXCEPT !.status = IF task.status = "completed" THEN "pending" ELSE "completed"]

\* handleToggleStatus up to its await, for a task of the rendered list
HandleToggleStatus(s) ==
    /\ CanArrive(s)
    /\ browser.isAuthenticated
    /\ ~browser.loading
    /\ \E i \in DOMAIN browser.tasks :
       LET task == browser.tasks[i] IN
       /\ task # NoRow
       /\ reqs' = [reqs EXCEPT ![s] =
              PutTasksRoute(Request("PUT", GetAuthHeaders, ToggledTask(task), task.id))]
       /\ calls' = [calls EXCEPT ![s] = Call("handleToggleStatus", browser.tasks, task)]
    /\ UNCHANGED <<db, now, held, signedUp, setting, running, browser>>

\* tasks.map(t => t.id === id ? data : t)
MapReplace(tasksSeen, id, data) ==
    [i \in DOMAIN tasksSeen |-> IF tasksSeen[i].id = id THEN data ELSE tasksSeen[i]]

\* handleToggleStatus from its await on
HandleToggleStatusSettled(s) ==
    /\ reqs[s].pc = "done"
    /\ calls[s].fn = "handleToggleStatus"
    /\ LET res == reqs[s].res
           call == calls[s]
       IN  browser' = IF Resolves(res)
                      THEN SetTasks(browser, call,
                                    MapReplace(call.tasks, call.task.id, ResponseData(res)))
                      ELSE SetError(browser, call, "Failed to update task status")
    /\ reqs' = [reqs EXCEPT ![s] = Idle]
    /\ calls' = [calls EXCEPT ![s] = NoCall]
    /\ UNCHANGED <<db, now, held, signedUp, setting, running>>

\* TaskForm filled from the task that is edited (description || ''), with
\* the title changed by the user
EditForms(task) ==
    {[title |-> "Call mum", description |-> task.description, status |-> task.status]}

\* handleEditTask for a task of the rendered list, and handleUpdateTask up
\* to its await; the form may be closed while the request is in flight
HandleUpdateTask(s) ==
    /\ CanArrive(s)
    /\ browser.isAuthenticated
    /\ ~browser.loading
    /\ \E i \in DOMAIN browser.tasks :
       LET editingTask == browser.tasks[i] IN
       /\ editingTask # NoRow
       /\ \E taskData \in EditForms(editingTask) :
          reqs' = [reqs EXCEPT ![s] =
              PutTasksRoute(Request("PUT", GetAuthHeaders, taskData, editingTask.id))]
       /\ calls' = [calls EXCEPT ![s] = Call("handleUpdateTask", browser.tasks, editingTask)]
    /\ UNCHANGED <<db, now, held, signedUp, setting, running, browser>>

\* handleUpdateTask from its await on
HandleUpdateTaskSettled(s) ==
    /\ reqs[s].pc = "done"
    /\ calls[s].fn = "handleUpdateTask"
    /\ LET res == reqs[s].res
           call == calls[s]
       IN  browser' = IF Resolves(res)
                      THEN SetTasks(browser, call,
                                    MapReplace(call.tasks, call.task.id, ResponseData(res)))
                      ELSE SetError(browser, call, "Failed to update task")
    /\ reqs' = [reqs EXCEPT ![s] = Idle]
    /\ calls' = [calls EXCEPT ![s] = NoCall]
    /\ UNCHANGED <<db, now, held, signedUp, setting, running>>

\* handleDeleteTask, confirmed, up to its await, for a task of the rendered
\* list
HandleDeleteTask(s) ==
    /\ CanArrive(s)
    /\ browser.isAuthenticated
    /\ ~browser.loading
    /\ \E i \in DOMAIN browser.tasks :
       LET task == browser.tasks[i] IN
       /\ task # NoRow
       /\ reqs' = [reqs EXCEPT ![s] =
              DeleteTasksRoute(Request("DELETE", GetAuthHeaders, NoBody, task.id))]
       /\ calls' = [calls EXCEPT ![s] = Call("handleDeleteTask", browser.tasks, task)]
    /\ UNCHANGED <<db, now, held, signedUp, setting, running, browser>>

\* tasks.filter(task => task.id !== taskId)
FilterOut(tasksSeen, taskId) == SelectSeq(tasksSeen, LAMBDA t : t.id # taskId)

\* handleDeleteTask from its await on
HandleDeleteTaskSettled(s) ==
    /\ reqs[s].pc = "done"
    /\ calls[s].fn = "handleDeleteTask"
    /\ LET res == reqs[s].res
           call == calls[s]
       IN  browser' = IF Resolves(res)
                      THEN SetTasks(browser, call, FilterOut(call.tasks, call.task.id))
                      ELSE SetError(browser, call, "Failed to delete task")
    /\ reqs' = [reqs EXCEPT ![s] = Idle]
    /\ calls' = [calls EXCEPT ![s] = NoCall]
    /\ UNCHANGED <<db, now, held, signedUp, setting, running>>

----------------------------------------------------------------------------
(* The whole system, from the empty database *)

Init ==
    /\ users = {}
    /\ tasks = {}
    /\ seqUsers = 0
    /\ seqTasks = 0
    /\ now = 0
    /\ reqs = [s \in Slots |-> Idle]
    /\ held = {}
    /\ signedUp = {}
    /\ maxInFlight = NumSlots
    /\ storageFaults = FALSE
    /\ running = TRUE
    /\ browser = LoggedOut
    /\ calls = [s \in Slots |-> NoCall]

Next ==
    \/ \E s \in Slots : Signup(s, AuthBodies)
    \/ \E s \in Slots : SignupSelect(s)
    \/ \E s \in Slots : SignupInsert(s)
    \/ \E s \in Slots : Login(s, AuthBodies)
    \/ \E s \in Slots : LoginSelect(s)
    \/ \E s \in Slots : GetTasks(s, Authorizations)
    \/ \E s \in Slots : GetTasksAll(s)
    \/ \E s \in Slots : PostTasks(s, Authorizations, TaskBodies)
    \/ \E s \in Slots : PostInsert(s)
    \/ \E s \in Slots : PostSelect(s)
    \/ \E s \in Slots : PutTasks(s, Authorizations, TaskBodies, TaskIds)
    \/ \E s \in Slots : PutUpdate(s)
    \/ \E s \in Slots : PutSelect(s)
    \/ \E s \in Slots : DeleteTasks(s, Authorizations, TaskIds)
    \/ \E s \in Slots : DeleteRun(s)
    \/ \E s \in Slots : Deliver(s)
    \/ \E s \in Slots : HandleSubmit(s, LoginForms)
    \/ \E s \in Slots : HandleSubmitSettled(s)
    \/ Logout
    \/ \E s \in Slots : FetchTasks(s)
    \/ \E s \in Slots : FetchTasksSettled(s)
    \/ \E s \in Slots : HandleAddTask(s, AddForms)
    \/ \E s \in Slots : HandleAddTaskSettled(s)
    \/ \E s \in Slots : HandleToggleStatus(s)
    \/ \E s \in Slots : HandleToggleStatusSettled(s)
    \/ \E s \in Slots : HandleUpdateTask(s)
    \/ \E s \in Slots : HandleUpdateTaskSettled(s)
    \/ \E s \in Slots : HandleDeleteTask(s)
    \/ \E s \in Slots : HandleDeleteTaskSettled(s)
    \/ Tick

Spec == Init /\ [][Next]_vars

----------------------------------------------------------------------------
(* The credential and session component: clients sign up, log in and list  *)
(* their tasks, with requests overlapping, while the clock runs.           *)

NextAuth ==
    \/ \E s \in Slots : Signup(s, AuthBodies)
    \/ \E s \in Slots : SignupSelect(s)
    \/ \E s \in Slots : SignupInsert(s)
    \/ \E s \in Slots : Login(s, AuthBodies)
    \/ \E s \in Slots : LoginSelect(s)
    \/ \E s \in Slots : GetTasks(s, Authorizations)
    \/ \E s \in Slots : GetTasksAll(s)
    \/ \E s \in Slots : Deliver(s)
    \/ Tick

SpecAuth == Init /\ [][NextAuth]_vars

----------------------------------------------------------------------------
(* The task store: two accounts have signed up at hour 0 and their clients *)
(* hold the tokens of those signups (a state that Spec reaches).           *)

Registered ==
    {[id |-> 1, email |-> "a@x.com", password |-> "secret1"],
     [id |-> 2, email |-> "b@x.com", password |-> "secret1"]}

InitStore(inFlight) ==
    /\ now = 0
    /\ users = {[id |-> c.id, email |-> c.email,
                 password |-> BcryptHash(c.password, "salt")] : c \in Registered}
    /\ seqUsers = Cardinality(Registered)
    /\ tasks = {}
    /\ seqTasks = 0
    /\ reqs = [s \in Slots |-> Idle]
    /\ held = {JwtSign(c.id, c.email, JWT_SECRET, ExpiresInHours) : c \in Registered}
    /\ signedUp = Registered
    /\ maxInFlight = inFlight
    /\ storageFaults = FALSE
    /\ running = TRUE
    /\ browser = LoggedOut
    /\ calls = [s \in Slots |-> NoCall]

\* every request of the task store, by clients that wait for each response
NextTasks ==
    \/ \E s \in Slots : GetTasks(s, Authorizations)
    \/ \E s \in Slots : GetTasksAll(s)
    \/ \E s \in Slots : PostTasks(s, Authorizations, TaskBodies)
    \/ \E s \in Slots : PostInsert(s)
    \/ \E s \in Slots : PostSelect(s)
    \/ \E s \in Slots : PutTasks(s, Authorizations, TaskBodies, TaskIds)
    \/ \E s \in Slots : PutUpdate(s)
    \/ \E s \in Slots : PutSelect(s)
    \/ \E s \in Slots : DeleteTasks(s, Authorizations, TaskIds)
    \/ \E s \in Slots : DeleteRun(s)
    \/ \E s \in Slots : Deliver(s)
    \/ Tick

SpecTasks == InitStore(1) /\ [][NextTasks]_vars

\* the requests of the two accounts overlapping within one instant of the clock
NextConc ==
    \/ \E s \in Slots : GetTasks(s, HeldAuthorizations)
    \/ \E s \in Slots : GetTasksAll(s)
    \/ \E s \in Slots : PostTasks(s, HeldAuthorizations, TaskBodies)
    \/ \E s \in Slots : PostInsert(s)
    \/ \E s \in Slots : PostSelect(s)
    \/ \E s \in Slots : PutTasks(s, HeldAuthorizations, TaskBodies, TaskIds)
    \/ \E s \in Slots : PutUpdate(s)
    \/ \E s \in Slots : PutSelect(s)
    \/ \E s \in Slots : DeleteTasks(s, HeldAuthorizations, TaskIds)
    \/ \E s \in Slots : DeleteRun(s)
    \/ \E s \in Slots : Deliver(s)

SpecConc == InitStore(NumSlots) /\ [][NextConc]_vars

----------------------------------------------------------------------------
(* Failures: the storage engine may fail any statement, and bodies may     *)
(* carry a number where a string is expected.                              *)

FaultBodies ==
    {[email |-> "a@x.com", password |-> "secret1"],
     [email |-> "a@x.com", password |-> "1234567"],
     [email |-> "c@x.com", password |-> "1234567"]}

InitFaults ==
    /\ now = 0
    /\ users = {[id |-> c.id, email |-> c.email,
                 password |-> BcryptHash(c.password, "salt")] : c \in Registered}
    /\ seqUsers = Cardinality(Registered)
    /\ tasks = {}
    /\ seqTasks = 0
    /\ reqs = [s \in Slots |-> Idle]
    /\ held = {JwtSign(c.id, c.email, JWT_SECRET, ExpiresInHours) : c \in Registered}
    /\ signedUp = Registered
    /\ maxInFlight = NumSlots
    /\ storageFaults = TRUE
    /\ running = TRUE
    /\ browser = LoggedOut
    /\ calls = [s \in Slots |-> NoCall]

NextFaults ==
    \/ \E s \in Slots : Signup(s, FaultBodies)
    \/ \E s \in Slots : SignupSelect(s)
    \/ \E s \in Slots : SignupInsert(s)
    \/ \E s \in Slots : Login(s, FaultBodies)
    \/ \E s \in Slots : LoginSelect(s)
    \/ \E s \in Slots : GetTasks(s, HeldAuthorizations)
    \/ \E s \in Slots : GetTasksAll(s)
    \/ \E s \in Slots : PostTasks(s, HeldAuthorizations, {[title |-> "Buy milk"]})
    \/ \E s \in Slots : PostInsert(s)
    \/ \E s \in Slots : PostSelect(s)
    \/ \E s \in Slots : PutTasks(s, HeldAuthorizations, {[title |-> "Buy milk"]}, TaskIds)
    \/ \E s \in Slots : PutUpdate(s)
    \/ \E s \in Slots : PutSelect(s)
    \/ \E s \in Slots : DeleteTasks(s, HeldAuthorizations, TaskIds)
    \/ \E s \in Slots : DeleteRun(s)
    \/ \E s \in Slots : Deliver(s)

SpecFaults == InitFaults /\ [][NextFaults]_vars

----------------------------------------------------------------------------
(* One browser, whose handlers wait for each response, on the store of the *)
(* two registered accounts, while the clock runs.                          *)

InitBrowser ==
    /\ now = 0
    /\ users = {[id |-> c.id, email |-> c.email,
                 password |-> BcryptHash(c.password, "salt")] : c \in Registered}
    /\ seqUsers = Cardinality(Registered)
    /\ tasks = {}
    /\ seqTasks = 0
    /\ reqs = [s \in Slots |-> Idle]
    /\ held = {}
    /\ signedUp = Registered
    /\ maxInFlight = 1
    /\ storageFaults = FALSE
    /\ running = TRUE
    /\ browser = LoggedOut
    /\ calls = [s \in Slots |-> NoCall]

NextBrowser ==
    \/ \E s \in Slots : HandleSubmit(s, LoginForms)
    \/ \E s \in Slots : HandleSubmitSettled(s)
    \/ Logout
    \/ \E s \in Slots : FetchTasks(s)
    \/ \E s \in Slots : FetchTasksSettled(s)
    \/ \E s \in Slots : HandleAddTask(s, AddForms)
    \/ \E s \in Slots : HandleAddTaskSettled(s)
    \/ \E s \in Slots : HandleToggleStatus(s)
    \/ \E s \in Slots : HandleToggleStatusSettled(s)
    \/ \E s \in Slots : SignupSelect(s)
    \/ \E s \in Slots : SignupInsert(s)
    \/ \E s \in Slots : LoginSelect(s)
    \/ \E s \in Slots : GetTasksAll(s)
    \/ \E s \in Slots : PostInsert(s)
    \/ \E s \in Slots : PostSelect(s)
    \/ \E s \in Slots : PutUpdate(s)
    \/ \E s \in Slots : PutSelect(s)
    \/ Tick

SpecBrowser == InitBrowser /\ [][NextBrowser]_vars

----------------------------------------------------------------------------
(* One browser whose user starts an action in the task list before the     *)
(* response to the previous one has arrived, within one instant of the     *)
(* clock.  The user has the account a@x.com, nobody else uses it, and the   *)
(* page is not reloaded.                                                   *)

InitList(inFlight) ==
    /\ now = 0
    /\ users = {[id |-> c.id, email |-> c.email,
                 password |-> BcryptHash(c.password, "salt")] : c \in Registered}
    /\ seqUsers = Cardinality(Registered)
    /\ tasks = {}
    /\ seqTasks = 0
    /\ reqs = [s \in Slots |-> Idle]
    /\ held = {}
    /\ signedUp = Registered
    /\ maxInFlight = inFlight
    /\ storageFaults = FALSE
    /\ running = TRUE
    /\ browser = LoggedOut
    /\ calls = [s \in Slots |-> NoCall]

NextOverlap ==
    \/ \E s \in Slots : HandleSubmit(s, {[email |-> "a@x.com", password |-> "secret1"]})
    \/ \E s \in Slots : HandleSubmitSettled(s)
    \/ \E s \in Slots : UseEffect(s)
    \/ \E s \in Slots : FetchTasksSettled(s)
    \/ \E s \in Slots : HandleAddTask(s, {[title |-> "Buy milk", description |-> "", status |-> "pending"]})
    \/ \E s \in Slots : HandleAddTaskSettled(s)
    \/ \E s \in Slots : HandleToggleStatus(s)
    \/ \E s \in Slots : HandleToggleStatusSettled(s)
    \/ \E s \in Slots : HandleUpdateTask(s)
    \/ \E s \in Slots : HandleUpdateTaskSettled(s)
    \/ \E s \in Slots : HandleDeleteTask(s)
    \/ \E s \in Slots : HandleDeleteTaskSettled(s)
    \/ \E s \in Slots : SignupSelect(s)
    \/ \E s \in Slots : LoginSelect(s)
    \/ \E s \in Slots : GetTasksAll(s)
    \/ \E s \in Slots : PostInsert(s)
    \/ \E s \in Slots : PostSelect(s)
    \/ \E s \in Slots : PutUpdate(s)
    \/ \E s \in Slots : PutSelect(s)
    \/ \E s \in Slots : DeleteRun(s)

SpecOverlap == InitList(2) /\ [][NextOverlap]_vars

\* the same user waiting for each response before the next action
SpecInTurn == InitList(1) /\ [][NextOverlap]_vars

----------------------------------------------------------------------------
(* What the properties below say of a step or of a request *)

TaskOps == {"GET", "POST", "PUT", "DELETE"}

\* the step is the arrival of a request on connection s
Arrives(s) == reqs[s].pc = "idle" /\ reqs'[s].pc # "idle"

\* the step is one of the request on connection s
Steps(s) == reqs[s].pc # "idle" /\ reqs'[s] # reqs[s]

FieldMissing(body, k) == k \notin DOMAIN body

FieldEmpty(body, k) == k \in DOMAIN body /\ Len(body[k]) = 0

\* the header carries a token
CarriesToken(authorization) == Len(authorization) = 2 /\ authorization[1] = "Bearer"

\* the token is one this server signed: its signature is the server's over its payload
ServerSigned(t) == t.sig = <<JWT_SECRET, t.userId, t.email, t.iat, t.exp>>

----------------------------------------------------------------------------
C2_LoginStep ==
    \A s \in Slots :
        (reqs[s].pc = "login_select" /\ Steps(s)) =>
            \A c \in signedUp :
                (c.email = reqs[s].body.email /\ c.password = reqs[s].body.password) =>
                    LET res == reqs'[s].res IN
                    /\ reqs'[s].pc = "done"
                    /\ res.status = 200
                    /\ AuthenticateToken(Request("GET", <<"Bearer", res.token>>, NoBody, 0)).pc # "done"
                    /\ res.token.userId = c.id
                    /\ res.token.email = c.email
                    /\ [id |-> c.id, email |-> c.email] \in
                           {[id |-> u.id, email |-> u.email] : u \in users}

\* C2: once a signup has been answered 201, every login with the same email
\* and password is answered 200 with a token that the guard accepts and that
\* carries the id and email of the account row the signup created.
C2_LoginAfterSignup == [][C2_LoginStep]_vars

C2_Witness ==
    \E s \in Slots :
        /\ reqs[s].op = "login" /\ reqs[s].pc = "done" /\ reqs[s].res.status = 200
        /\ \E c \in signedUp :
               /\ c.email = reqs[s].body.email /\ c.password = reqs[s].body.password
               /\ reqs[s].res.token.userId = c.id
        /\ reqs[s].res.token.iat > 0

C3_SignupStep ==
    \A s \in Slots :
        (/\ Arrives(s)
         /\ reqs'[s].op = "signup"
         /\ LET body == reqs'[s].body IN
            \/ FieldMissing(body, "email")
            \/ FieldMissing(body, "password")
            \/ Len(body.password) < 6)
        => /\ reqs'[s].pc = "done"
           /\ reqs'[s].res.status = 400
           /\ reqs'[s].res.token = NoToken
           /\ users' = users

\* a request that has been answered runs no further statement
AnsweredStaysAnswered ==
    \A s \in Slots :
        reqs[s].pc = "done" => (reqs'[s] = reqs[s] \/ (reqs'[s] = Idle /\ db' = db))

\* C3: a signup whose email or password is missing, or whose password has
\* fewer than 6 characters, is answered 400 on arrival and the accounts stay
\* as they were.
C3_InvalidSignup == [][C3_SignupStep /\ AnsweredStaysAnswered]_vars

C3_Witness ==
    \E s \in Slots :
        /\ reqs[s].op = "signup" /\ reqs[s].pc = "done" /\ reqs[s].res.status = 400
        /\ "password" \in DOMAIN reqs[s].body
        /\ Len(reqs[s].body.password) = 5

C4_SecondSignupStep ==
    \A s \in Slots :
        (/\ reqs[s].pc = "signup_select"
         /\ Steps(s)
         /\ \E c \in signedUp : c.email = reqs[s].body.email)
        => /\ reqs'[s].pc = "done"
           /\ reqs'[s].res = ErrorResponse(400, "User already exists")
           /\ reqs'[s].res.token = NoToken
           /\ users' = users

C4_OneRow ==
    \A c \in signedUp : Cardinality({u \in users : u.email = c.email}) = 1

\* C4: once a signup for an email has been answered 201, a signup for the
\* same email that arrives later is answered 400 'User already exists'
\* without a token, and the email keeps exactly one account row.
C4_DuplicateSignup == []C4_OneRow /\ [][C4_SecondSignupStep]_vars

C4_Witness ==
    \E s \in Slots :
        /\ reqs[s].op = "signup" /\ reqs[s].pc = "done"
        /\ reqs[s].res.error = "User already exists"
        /\ Cardinality({u \in users : u.email = reqs[s].body.email}) = 1

\* C5: a login with both fields present that is not answered 200 is answered
\* 400 {error: 'Invalid credentials'} without a token, the same response
\* whether the email has an account or not.
C5_UniformLoginFailure ==
    \A s \in Slots :
        (/\ reqs[s].op = "login"
         /\ reqs[s].pc = "done"
         /\ ~FieldMissing(reqs[s].body, "email") /\ ~FieldEmpty(reqs[s].body, "email")
         /\ ~FieldMissing(reqs[s].body, "password") /\ ~FieldEmpty(reqs[s].body, "password")
         /\ reqs[s].res.status # 200)
        => reqs[s].res =
               [status |-> 400, error |-> "Invalid credentials", message |-> "",
                token |-> NoToken, rows |-> <<>>]

\* two failed logins side by side, one for a registered email and one for an
\* email without account, with the same response
C5_Witness ==
    \E s1, s2 \in Slots :
        /\ reqs[s1].op = "login" /\ reqs[s1].pc = "done"
        /\ reqs[s2].op = "login" /\ reqs[s2].pc = "done"
        /\ "email" \in DOMAIN reqs[s1].body /\ "email" \in DOMAIN reqs[s2].body
        /\ "password" \in DOMAIN reqs[s1].body /\ "password" \in DOMAIN reqs[s2].body
        /\ \E u \in users : u.email = reqs[s1].body.email
        /\ \A u \in users : u.email # reqs[s2].body.email
        /\ reqs[s1].res.status = 400
        /\ reqs[s1].res = reqs[s2].res

----------------------------------------------------------------------------
C1_OwnRowsOnly ==
    \A s \in Slots :
        reqs[s].pc = "done" /\ reqs[s].op \in TaskOps =>
            \A i \in DOMAIN reqs[s].res.rows :
                /\ CarriesToken(reqs[s].authorization)
                /\ reqs[s].res.rows[i].user_id = reqs[s].authorization[2].userId

C1_ForeignStep ==
    \A s \in Slots :
        (/\ reqs[s].pc \in {"put_update", "delete_run"}
         /\ Steps(s)
         /\ \E t \in tasks :
                t.id = reqs[s].id /\ t.user_id # reqs[s].authorization[2].userId)
        => /\ reqs'[s].pc = "done"
           /\ reqs'[s].res = ErrorResponse(404, "Task not found or unauthorized")
           /\ tasks' = tasks

C1_OthersKept ==
    \A s \in Slots :
        (Steps(s) /\ reqs[s].op \in TaskOps /\ CarriesToken(reqs[s].authorization)) =>
            {t \in tasks : t.user_id # reqs[s].authorization[2].userId}
                = {t \in tasks' : t.user_id # reqs[s].authorization[2].userId}

\* C1: the tasks of one account are out of reach of every other account,
\* whatever requests overlap: no response carries a task row whose user_id
\* is not the requester's (lists, and the rows read back by id after a
\* create or an update); a PUT or DELETE against an id whose row belongs to
\* another account is answered 404 'Task not found or unauthorized' and
\* changes no row; and no step of a request changes or removes a row of
\* another account.
C1_Isolation == []C1_OwnRowsOnly /\ [][C1_ForeignStep /\ C1_OthersKept]_vars

\* B's update of A's existing task has been answered 404 while a request of
\* A is in flight
C1_Witness ==
    \E s, o \in Slots :
        /\ reqs[s].op = "PUT" /\ reqs[s].pc = "done" /\ reqs[s].res.status = 404
        /\ \E t \in tasks :
               /\ t.id = reqs[s].id
               /\ t.user_id # reqs[s].authorization[2].userId
               /\ reqs[o].pc \notin {"idle", "done"}
               /\ reqs[o].authorization[2].userId = t.user_id

----------------------------------------------------------------------------
C6_GuardStep ==
    \A s \in Slots :
        (Arrives(s) /\ reqs'[s].op \in TaskOps) =>
            LET r == reqs'[s]
                a == r.authorization
            IN  /\ ~CarriesToken(a) =>
                    r.pc = "done" /\ r.res.status = 401 /\ db' = db
                /\ (CarriesToken(a) /\ (~ServerSigned(a[2]) \/ now >= a[2].exp)) =>
                    r.pc = "done" /\ r.res.status = 403 /\ db' = db

\* C6: the guard comes first in every task route: a request without a token
\* is answered 401 and one whose token has an invalid signature or has
\* expired is answered 403, at arrival, whatever its body; the step changes
\* nothing in storage and the answered request runs no statement later.
C6_GuardFirst == [][C6_GuardStep /\ AnsweredStaysAnswered]_vars

\* an update with an expired token and without title, answered 403
C6_Witness ==
    \E s \in Slots :
        /\ reqs[s].op = "PUT" /\ reqs[s].pc = "done" /\ reqs[s].res.status = 403
        /\ FieldMissing(reqs[s].body, "title")
        /\ ServerSigned(reqs[s].authorization[2])
        /\ now >= reqs[s].authorization[2].exp

----------------------------------------------------------------------------
C7_IssueStep ==
    \A s \in Slots :
        (Steps(s) /\ reqs'[s].res.token # NoToken) =>
            LET t == reqs'[s].res.token IN
            /\ reqs[s].op \in {"signup", "login"}
            /\ ServerSigned(t)
            /\ t.iat = now
            /\ t.exp = now + 24

C7_HeldStep ==
    \A t \in held' \ held :
        \E s \in Slots : reqs[s].pc = "done" /\ reqs[s].res.token = t

C7_GuardStep ==
    \A s \in Slots :
        (Arrives(s) /\ reqs'[s].op \in TaskOps /\ CarriesToken(reqs'[s].authorization)) =>
            LET r == reqs'[s]
                t == r.authorization[2]
                accepted == r.pc # "done"
            IN  /\ (t \in held /\ now - t.iat < 24) => accepted
                /\ (t \in held /\ now - t.iat >= 24) => r.pc = "done" /\ r.res.status = 403
                /\ accepted =>
                       /\ ServerSigned(t)
                       /\ t.exp = t.iat + 24
                       /\ t.iat <= now /\ now - t.iat < 24
                       /\ \E c \in signedUp : c.id = t.userId /\ c.email = t.email

\* C7: a token issued by signup or login carries the instant of its issuance
\* and expires 24 hours later; the guard accepts it while less than 24 hours
\* have passed since its issuance and answers 403 from then on; the tokens
\* clients hold only ever come from signup and login responses, and the
\* guard accepts no token but one the server signed for a signed-up account
\* less than 24 hours ago.
C7_TokenWindow == [][C7_IssueStep /\ C7_HeldStep /\ C7_GuardStep]_vars

\* the token of hour 0 is refused while a token of a later login of the same
\* account is accepted
C7_Witness ==
    \E s1, s2 \in Slots :
        /\ reqs[s1].op = "GET" /\ reqs[s1].pc = "done" /\ reqs[s1].res.status = 403
        /\ reqs[s1].authorization[2] \in held
        /\ reqs[s2].op = "GET" /\ reqs[s2].pc = "done" /\ reqs[s2].res.status = 200
        /\ reqs[s2].authorization[2].userId = reqs[s1].authorization[2].userId
        /\ reqs[s2].authorization[2].iat > reqs[s1].authorization[2].iat

----------------------------------------------------------------------------
C8_ListStep ==
    \A s \in Slots :
        (reqs[s].pc = "get_all" /\ Steps(s)) =>
            LET rows == reqs'[s].res.rows
                own == {t \in tasks : t.user_id = reqs[s].authorization[2].userId}
            IN  /\ reqs'[s].pc = "done"
                /\ reqs'[s].res.status = 200
                /\ {rows[i] : i \in DOMAIN rows} = own
                /\ Len(rows) = Cardinality(own)
                /\ \A i, j \in DOMAIN rows : i < j => rows[i].created_at >= rows[j].created_at

\* C8: the step that answers GET /tasks answers 200 with every task row of
\* the authenticated owner, each once, and no other row, the rows in
\* non-increasing order of created_at; with no rows the list is empty.
C8_ListOwnNewestFirst == [][C8_ListStep]_vars

\* a list of one task that leaves out the task of another account
C8_WitnessOthers ==
    \E s \in Slots :
        /\ reqs[s].op = "GET" /\ reqs[s].pc = "done" /\ reqs[s].res.status = 200
        /\ Len(reqs[s].res.rows) = 1
        /\ Cardinality(tasks) = 2
        /\ \E t \in tasks : t.user_id # reqs[s].authorization[2].userId

\* a list of two tasks created at different instants, the newer one first
C8_Witness ==
    \E s \in Slots :
        /\ reqs[s].op = "GET" /\ reqs[s].pc = "done" /\ reqs[s].res.status = 200
        /\ Len(reqs[s].res.rows) = 2
        /\ reqs[s].res.rows[1].created_at > reqs[s].res.rows[2].created_at
        /\ reqs[s].res.rows[1].id > reqs[s].res.rows[2].id

----------------------------------------------------------------------------
C9_InsertStep ==
    \A s \in Slots :
        (reqs[s].pc = "post_insert" /\ Steps(s)) =>
            LET body == reqs[s].body IN
            \E t \in tasks' \ tasks :
                /\ tasks' = tasks \cup {t}
                /\ t.id \notin {x.id : x \in tasks}
                /\ t.id > seqTasks
                /\ t.title = body.title
                /\ t.description = (IF FieldMissing(body, "description") THEN "" ELSE body.description)
                /\ t.status = "pending"
                /\ t.user_id = reqs[s].authorization[2].userId
                /\ t.created_at = now /\ t.updated_at = now

C9_Created ==
    \A s \in Slots :
        (reqs[s].op = "POST" /\ reqs[s].pc = "done" /\ reqs[s].res.status = 201) =>
            LET body == reqs[s].body
                rows == reqs[s].res.rows
            IN  /\ Len(rows) = 1
                /\ rows[1] \in tasks
                /\ rows[1].id = reqs[s].lastID
                /\ rows[1].title = body.title
                /\ rows[1].description = (IF FieldMissing(body, "description") THEN "" ELSE body.description)
                /\ rows[1].status = "pending"
                /\ rows[1].user_id = reqs[s].authorization[2].userId
                /\ \A list \in SelectTasksByUser(reqs[s].authorization[2].userId) :
                       \E i \in DOMAIN list : list[i] = rows[1]

\* C9: with clients that wait for each response, the INSERT of a POST /tasks
\* adds exactly one row, owned by the caller, with the submitted title, the
\* submitted description or '', status 'pending' and both timestamps at the
\* current instant; the request is answered 201 with that row, and every
\* list that a GET /tasks of the owner can then return contains it.
C9_CreateListRoundTrip == []C9_Created /\ [][C9_InsertStep]_vars

\* a create whose body carried a description and a status, answered 201
C9_Witness ==
    \E s \in Slots :
        /\ reqs[s].op = "POST" /\ reqs[s].pc = "done" /\ reqs[s].res.status = 201
        /\ "status" \in DOMAIN reqs[s].body
        /\ reqs[s].body.status = "completed"
        /\ reqs[s].res.rows[1].description = "2 litres"
        /\ Cardinality(tasks) = 2

----------------------------------------------------------------------------
C10_TitleStep ==
    \A s \in Slots :
        (/\ Arrives(s)
         /\ reqs'[s].op \in {"POST", "PUT"}
         /\ CarriesToken(reqs'[s].authorization)
         /\ ServerSigned(reqs'[s].authorization[2])
         /\ now < reqs'[s].authorization[2].exp
         /\ (FieldMissing(reqs'[s].body, "title") \/ FieldEmpty(reqs'[s].body, "title")))
        => /\ reqs'[s].pc = "done"
           /\ reqs'[s].res = ErrorResponse(400, "Title is required")
           /\ tasks' = tasks
           /\ seqTasks' = seqTasks

\* C10: a POST /tasks or PUT /tasks/:id of an authenticated account whose
\* title is missing or empty is answered 400 'Title is required' at arrival;
\* the step changes no row and inserts none, and the answered request runs
\* no statement later.
C10_TitleRequired == [][C10_TitleStep /\ AnsweredStaysAnswered]_vars

\* an update with an empty title of a task the caller owns, answered 400
C10_Witness ==
    \E s \in Slots :
        /\ reqs[s].op = "PUT" /\ reqs[s].pc = "done" /\ reqs[s].res.status = 400
        /\ FieldEmpty(reqs[s].body, "title")
        /\ \E t \in tasks :
               t.id = reqs[s].id /\ t.user_id = reqs[s].authorization[2].userId

----------------------------------------------------------------------------
\* the value that a request submits for field k: the field's value, and the
\* route's default when the body leaves the field out or empty
Submitted(body, k, dflt) ==
    IF FieldMissing(body, k) \/ FieldEmpty(body, k) THEN dflt ELSE body[k]

\* the rows with this id that belong to the requester of connection s
OwnRows(s) ==
    {t \in tasks : t.id = reqs[s].id /\ t.user_id = reqs[s].authorization[2].userId}

C11_UpdateStep ==
    \A s \in Slots :
        (reqs[s].pc = "put_update" /\ Steps(s)) =>
            LET body == reqs[s].body IN
            IF OwnRows(s) = {}
            THEN /\ reqs'[s].pc = "done"
                 /\ reqs'[s].res = ErrorResponse(404, "Task not found or unauthorized")
                 /\ db' = db
            ELSE \E t \in OwnRows(s) :
                 /\ tasks' = (tasks \ {t}) \cup
                        {[id |-> t.id, user_id |-> t.user_id, created_at |-> t.created_at,
                          title |-> body.title,
                          description |-> Submitted(body, "description", ""),
                          status |-> Submitted(body, "status", "pending"),
                          updated_at |-> now]}
                 /\ reqs'[s].pc # "done"

C11_Updated ==
    \A s \in Slots :
        (reqs[s].op = "PUT" /\ reqs[s].pc = "done" /\ reqs[s].res.status = 200) =>
            LET body == reqs[s].body
                rows == reqs[s].res.rows
            IN  /\ Len(rows) = 1
                /\ rows[1] \in tasks
                /\ rows[1].id = reqs[s].id
                /\ rows[1].user_id = reqs[s].authorization[2].userId
                /\ rows[1].title = body.title
                /\ rows[1].description = Submitted(body, "description", "")
                /\ rows[1].status = Submitted(body, "status", "pending")
                /\ rows[1].updated_at <= now

\* C11: with clients that wait for each response, the UPDATE of a PUT
\* /tasks/:id with a non-empty title, when the requester owns a row with that
\* id, sets the row's title, description and status to the submitted values
\* and updated_at to the current instant, and the request is answered 200
\* with that row; when the requester owns no row with that id (none exists,
\* or it belongs to another account) the request is answered 404 'Task not
\* found or unauthorized' and the store stays as it was.
C11_UpdateOrNotFound == []C11_Updated /\ [][C11_UpdateStep]_vars

\* an update at a later instant than the creation, answered 200 with the
\* submitted status
C11_Witness ==
    \E s \in Slots :
        /\ reqs[s].op = "PUT" /\ reqs[s].pc = "done" /\ reqs[s].res.status = 200
        /\ reqs[s].res.rows[1].status = "completed"
        /\ reqs[s].res.rows[1].title = "Call mum"
        /\ reqs[s].res.rows[1].updated_at > reqs[s].res.rows[1].created_at

----------------------------------------------------------------------------
\* the ids that were given to a task and whose row is no longer stored
Gone == {i \in 1..seqTasks : \A t \in tasks : t.id # i}

C12_DeleteStep ==
    \A s \in Slots :
        (reqs[s].pc = "delete_run" /\ Steps(s)) =>
            /\ reqs'[s].pc = "done"
            /\ IF OwnRows(s) = {}
               THEN /\ reqs'[s].res.status = 404
                    /\ db' = db
               ELSE /\ reqs'[s].res.status = 200
                    /\ \E t \in tasks : t.id = reqs[s].id /\ tasks' = tasks \ {t}
                    /\ reqs[s].id \in Gone'

C12_GoneStep ==
    /\ Gone \subseteq Gone'
    /\ \A s \in Slots :
           Steps(s) =>
               /\ \A i \in DOMAIN reqs'[s].res.rows : reqs'[s].res.rows[i].id \notin Gone
               /\ (reqs[s].pc \in {"put_update", "delete_run"} /\ reqs[s].id \in Gone) =>
                      /\ reqs'[s].pc = "done"
                      /\ reqs'[s].res.status = 404
                      /\ db' = db

\* C12: the DELETE of a task the requester owns is answered 200 and removes
\* that row and no other; from then on the id is gone for good: a further
\* DELETE or a PUT of that id is answered 404 and changes nothing, no list
\* and no read-back carries a row with that id, and no task created later is
\* given that id.
C12_DeleteTwice == [][C12_DeleteStep /\ C12_GoneStep]_vars

\* a second DELETE of a deleted id, answered 404 after another task was created
C12_Witness ==
    \E s \in Slots :
        /\ reqs[s].op = "DELETE" /\ reqs[s].pc = "done" /\ reqs[s].res.status = 404
        /\ reqs[s].id \in Gone
        /\ \E t \in tasks :
               t.id > reqs[s].id /\ t.user_id = reqs[s].authorization[2].userId

----------------------------------------------------------------------------
C14_TitleAndOwner ==
    \A t \in tasks :
        /\ Len(t.title) > 0
        /\ t.user_id # 0
        /\ \E u \in users : u.id = t.user_id

\* C14: in every reachable state every stored task has a non-empty title, a
\* user_id that is the id of an existing account, and a status that is
\* 'pending' or 'completed', whatever bodies POST /tasks and PUT /tasks/:id
\* were sent.
C14_StoredTasksValid ==
    /\ C14_TitleAndOwner
    /\ \A t \in tasks : t.status \in {"pending", "completed"}

----------------------------------------------------------------------------
\* the request has a statement or a callback pending: it will take a step
Pending(req) ==
    req.pc \in {"signup_select", "signup_insert", "login_select", "get_all",
                "post_insert", "post_select", "put_update", "put_select",
                "delete_run"}

C15_Answered ==
    \A s \in Slots :
        /\ reqs[s].pc \in {"idle", "done"} \/ Pending(reqs[s])
        /\ (reqs[s].pc = "done" /\ reqs[s].res.status >= 400) => reqs[s].res.error # ""

\* C15: a request that an endpoint has accepted is answered or has a step
\* pending that leads to its answer, never left without either; a failure
\* is answered with its status and an {error} body; and the server is not
\* terminated, whatever fails: a storage call, or the hashing or comparison
\* of the password inside the callbacks of signup and login.
C15_EveryRequestAnswered == running /\ C15_Answered

----------------------------------------------------------------------------
\* C16: with the requests of one owner on one task interleaving statement by
\* statement, every POST /tasks answered 201 and every PUT /tasks/:id
\* answered 200 carries one task record, with the id and the values that
\* this same request wrote.
C16_ResponseIsOwnWrite ==
    \A s \in Slots :
        (/\ reqs[s].pc = "done"
         /\ \/ reqs[s].op = "POST" /\ reqs[s].res.status = 201
            \/ reqs[s].op = "PUT" /\ reqs[s].res.status = 200) =>
            LET body == reqs[s].body
                rows == reqs[s].res.rows
            IN  /\ Len(rows) = 1
                /\ rows[1].id = (IF reqs[s].op = "POST" THEN reqs[s].lastID ELSE reqs[s].id)
                /\ rows[1].title = body.title
                /\ rows[1].description = Submitted(body, "description", "")
                /\ rows[1].status =
                       (IF reqs[s].op = "POST" THEN "pending"
                        ELSE Submitted(body, "status", "pending"))

----------------------------------------------------------------------------
\* the body passes the checks of the signup route
ValidSignup(body) ==
    /\ ~FieldMissing(body, "email") /\ ~FieldEmpty(body, "email")
    /\ ~FieldMissing(body, "password") /\ Len(body.password) >= 6

\* C17: whatever way signup requests for one email overlap, no two account
\* rows share an email, at most one signup per email is answered 201, and
\* every other valid signup for it is answered 400.
C17_RacingSignups ==
    /\ \A u1, u2 \in users : u1.email = u2.email => u1 = u2
    /\ \A c1, c2 \in signedUp : c1.email = c2.email => c1 = c2
    /\ \A s \in Slots :
           (/\ reqs[s].op = "signup" /\ reqs[s].pc = "done"
            /\ ValidSignup(reqs[s].body)
            /\ reqs[s].res.status # 201)
           => reqs[s].res.status = 400

C17_OneRowOneToken ==
    /\ \A u1, u2 \in users : u1.email = u2.email => u1 = u2
    /\ \A c1, c2 \in signedUp : c1.email = c2.email => c1 = c2

----------------------------------------------------------------------------
C18_FrameStep ==
    \A s \in Slots :
        (Steps(s) /\ reqs[s].op \in TaskOps) =>
            /\ users' = users
            /\ seqUsers' = seqUsers
            /\ \A t \in tasks : t.id # reqs[s].id => t \in tasks'
            /\ reqs[s].pc = "put_update" =>
                   /\ \A t \in tasks :
                          \E n \in tasks' :
                              /\ n.id = t.id
                              /\ n.user_id = t.user_id
                              /\ n.created_at = t.created_at
                   /\ Cardinality(tasks') = Cardinality(tasks)
            /\ reqs[s].pc = "delete_run" =>
                   /\ tasks' \subseteq tasks
                   /\ Cardinality(tasks \ tasks') <= 1
            /\ reqs[s].pc = "post_insert" => tasks \subseteq tasks'
            /\ reqs[s].pc \notin {"put_update", "delete_run", "post_insert"} =>
                   tasks' = tasks

\* C18: a step of a task request changes no account row; the UPDATE of a PUT
\* leaves every row with another id as it was and keeps the id, user_id and
\* created_at of the row it writes; the DELETE removes at most the row with
\* the requested id and changes no row; the INSERT of a POST only adds a
\* row; no other step of a task request changes a task row.
C18_Frame == [][C18_FrameStep]_vars

\* an update answered 200 and a delete answered 200, each with another task
\* of the same owner still stored
C18_Witness ==
    \E s, o \in Slots :
        /\ reqs[s].op = "PUT" /\ reqs[s].pc = "done" /\ reqs[s].res.status = 200
        /\ reqs[o].op = "DELETE" /\ reqs[o].pc = "done" /\ reqs[o].res.status = 200
        /\ reqs[o].authorization = reqs[s].authorization
        /\ \E t \in tasks :
               /\ t.id = reqs[s].id
               /\ t.id # reqs[o].id
               /\ t.user_id = reqs[s].authorization[2].userId

----------------------------------------------------------------------------
C19_DefaultStep ==
    \A s \in Slots :
        (reqs[s].pc = "put_update" /\ Steps(s) /\ reqs'[s].pc = "put_select") =>
            \A n \in tasks' :
                n.id = reqs[s].id =>
                    /\ FieldMissing(reqs[s].body, "status") => n.status = "pending"
                    /\ FieldMissing(reqs[s].body, "description") => n.description = ""
                    /\ n.status = Submitted(reqs[s].body, "status", "pending")
                    /\ n.description = Submitted(reqs[s].body, "description", "")

\* C19: the UPDATE of a successful PUT /tasks/:id writes status and
\* description whether or not the body carries them: a status left out is
\* stored as 'pending' and a description left out as '', whatever the row
\* held before.
C19_OmittedFieldsDefault == [][C19_DefaultStep]_vars

\* a task that a response still undelivered shows as 'completed' with a
\* description, stored as 'pending' without description after an update
\* that left both fields out
C19_Witness ==
    \E s, o \in Slots :
        /\ reqs[s].op = "PUT" /\ reqs[s].pc = "done" /\ reqs[s].res.status = 200
        /\ FieldMissing(reqs[s].body, "status")
        /\ FieldMissing(reqs[s].body, "description")
        /\ Len(reqs[s].res.rows) = 1
        /\ reqs[s].res.rows[1] \in tasks
        /\ reqs[s].res.rows[1].status = "pending"
        /\ reqs[s].res.rows[1].description = ""
        /\ reqs[o].op = "PUT" /\ reqs[o].pc = "done" /\ reqs[o].res.status = 200
        /\ reqs[o].id = reqs[s].id
        /\ Len(reqs[o].res.rows) = 1
        /\ reqs[o].res.rows[1].status = "completed"
        /\ reqs[o].res.rows[1].description = "2 litres"

----------------------------------------------------------------------------
\* the UPDATE of a toggle: the row's status goes from 'pending' to
\* 'completed' or back, its title and description stay, and updated_at
\* becomes the current instant, (strictly) later than it was
C13_UpdateStep(strictly) ==
    \A s \in Slots :
        (reqs[s].pc = "put_update" /\ Steps(s) /\ calls[s].fn = "handleToggleStatus") =>
            /\ OwnRows(s) # {}
            /\ \A t \in OwnRows(s) :
                   \E n \in tasks' :
                       /\ n.id = t.id
                       /\ t.status \in {"pending", "completed"}
                       /\ n.status \in {"pending", "completed"} \ {t.status}
                       /\ n.title = t.title
                       /\ n.description = t.description
                       /\ n.updated_at = now
                       /\ IF strictly THEN n.updated_at > t.updated_at
                                      ELSE n.updated_at >= t.updated_at

\* the list the client shows after a toggle answered 200 has the task with
\* the status flipped, so that the next toggle of it sends the status it had before
C13_SettledStep ==
    \A s \in Slots :
        (/\ calls[s].fn = "handleToggleStatus" /\ ~calls[s].unmounted
         /\ reqs[s].pc = "done" /\ reqs'[s].pc = "idle"
         /\ reqs[s].res.status = 200) =>
            /\ Len(reqs[s].res.rows) = 1
            /\ \E i \in DOMAIN browser'.tasks :
                   LET shown == browser'.tasks[i] IN
                   /\ shown \in tasks
                   /\ shown.id = calls[s].task.id
                   /\ shown.status \in {"pending", "completed"} \ {calls[s].task.status}
                   /\ ToggledTask(shown).status = calls[s].task.status
                   /\ shown.title = calls[s].task.title
                   /\ shown.description = calls[s].task.description

\* C13 as claimed: a toggle (the PUT that resends the task with the opposite
\* status) flips the status between 'pending' and 'completed' and leaves
\* title and description, so two toggles give the original status back, and
\* updated_at after each toggle is strictly later than before it.
C13_ToggleTwiceAdvances == [][C13_UpdateStep(TRUE) /\ C13_SettledStep]_vars

\* C13 as amended: a toggle flips the status between 'pending' and
\* 'completed' and leaves title and description, so two toggles give the
\* original status back, and updated_at after each toggle is the instant of
\* that toggle, not earlier than before it.
C13_ToggleTwice == [][C13_UpdateStep(FALSE) /\ C13_SettledStep]_vars

\* the second toggle of a task, from 'completed' back to 'pending', answered
\* at a later instant than the first
C13_Witness ==
    \E s \in Slots :
        /\ calls[s].fn = "handleToggleStatus"
        /\ reqs[s].pc = "done" /\ reqs[s].res.status = 200
        /\ calls[s].task.status = "completed"
        /\ calls[s].task.updated_at > calls[s].task.created_at
        /\ reqs[s].res.rows[1].status = "pending"
        /\ reqs[s].res.rows[1].title = calls[s].task.title
        /\ reqs[s].res.rows[1].updated_at > calls[s].task.updated_at

----------------------------------------------------------------------------
C20_RejectedStep ==
    \A s \in Slots :
        (/\ calls[s].fn = "fetchTasks"
         /\ reqs[s].pc = "done" /\ reqs'[s].pc = "idle"
         /\ reqs[s].authorization = GetAuthHeaders
         /\ reqs[s].res.status \in {401, 403})
        => /\ browser'.token = NoToken
           /\ browser'.userData = NoUser
           /\ ~browser'.isAuthenticated

\* C20: when the answer to fetchTasks is the server's rejection of the token
\* the client has stored (401 or 403: missing, invalid or expired), the
\* client logs out: token and user are removed from localStorage and
\* isAuthenticated becomes false.
C20_SessionExpiry == [][C20_RejectedStep]_vars

----------------------------------------------------------------------------
\* what the list shows of a task
Displayed(t) ==
    [id |-> t.id, title |-> t.title, description |-> t.description, status |-> t.status]

\* the loaded task list, with every response arrived and handled
AllArrived ==
    /\ browser.isAuthenticated
    /\ ~browser.loading
    /\ \A s \in Slots : reqs[s].pc = "idle" /\ calls[s] = NoCall

\* the tasks state holds each of the user's rows once, as the server has it
Agreement ==
    LET ownRows == {t \in tasks : t.user_id = browser.user.userId} IN
    /\ {Displayed(browser.tasks[i]) : i \in DOMAIN browser.tasks} = {Displayed(t) : t \in ownRows}
    /\ Len(browser.tasks) = Cardinality(ownRows)

\* C21: when add, edit, toggle and delete actions of the task list overlap
\* in flight, then once all responses have arrived the client's tasks state
\* contains exactly the tasks the server holds for the user, with their
\* current title, description and status: nothing completed is lost from or
\* resurrected in the displayed list.
C21_ClientServerAgreement == AllArrived => Agreement

\* two toggles of different tasks overlapped, both were answered 200 and
\* stored, and the list shows the first task as it was before its toggle
C21_LostToggle ==
    /\ AllArrived
    /\ Len(browser.tasks) = 2
    /\ Cardinality(tasks) = 2
    /\ \A t \in tasks : t.status = "completed" /\ t.title = "Buy milk"
    /\ \E i \in DOMAIN browser.tasks : browser.tasks[i].status = "pending"

====
